---- MODULE Spec2Model ----
(***************************************************************************)
(* bombuscv: the capture / detect / record pipeline of src/main.py.        *)
(*                                                                         *)
(* Three threads of control are modelled: the main thread (main()), the    *)
(* FrameGrabber thread (producer) and the Main thread (controller,         *)
(* consumer).  They share the bounded queue `frames'.  The capture device   *)
(* and the video writer are external; they are modelled by what the code   *)
(* observes of them: isOpened(), read(), write(), release().               *)
(*                                                                         *)
(* An image is a row of Width pixel intensities (0..255).  A queue entry    *)
(* is the dict {"date_time", "frame"} of FrameGrabber.run; date_time is    *)
(* the ordinal of the read (a clock that ticks once per read).  A failed   *)
(* read yields frame = None.                                               *)
(***************************************************************************)
EXTENDS Integers, Sequences, FiniteSets, TLC

\* ---- bounds of the model ----
QueueCap == 2        \* stands for Queue(10000): the maxsize of `frames'
MaxFrames == 4       \* longest source (number of frames it delivers)
MaxDuration == 3     \* largest --duration (seconds)
MaxFps == 3          \* largest frame rate of a source, in units of 1/FpsDen
Width == 2           \* pixels per image
RefQuiet == 50       \* non-motion pairs of the reference run

\* ---- program constants ----
FpsDen == 2          \* fps is a float: it is kept as a multiple of 1/FpsDen
DefaultDuration == 3     \* --duration default
DefaultFps == 10         \* --fps default
Thresh == 30         \* cv.threshold(proc_frame, 30, 255, THRESH_BINARY)
MaxVal == 255
DilateIterations == 3
TextPos == 1         \* the pixel under putText's position (10, 40)
White == 255         \* putText colour (255, 255, 255)

VARIABLES
  duration,     \* args.duration
  source,       \* the device or file behind cv.VideoCapture: [video, fps]
  cap,          \* grabber.cap: [opened, pos, releases]
  terminate,    \* FrameGrabber.terminate (Event)
  writer,       \* Main.writer: [opened, releases]
  fps,          \* Main.fps, cap.get(CAP_PROP_FPS), in units of 1/FpsDen
  frames,       \* the global queue
  mainpc,       \* position of main()
  gpc,          \* position of FrameGrabber.run
  pending,      \* the dict FrameGrabber.run is about to put
  mpc,          \* position of Main.run
  prev_frame,   \* Main.prev_frame
  frame,        \* Main.frame
  remaining,    \* iterations left of the for loop of Main.run
  printed,      \* diagnostics printed
  exit_status,  \* -1 while the process lives, else the status of exit()
  written,      \* what writer.write received, in order
  grabbed,      \* history: every dict built by FrameGrabber.run, in order
  pushed,       \* history: every dict frames.put accepted, in order
  popped,       \* history: every dict frames.get returned, in order
  evaluated,    \* history: the pairs _motion_detected was run on
  test_main     \* the Main thread of test.py, fed the same queue in lock-step

vars == << duration, source, cap, terminate, writer, fps, frames, mainpc, gpc,
           pending, mpc, prev_frame, frame, remaining, printed, exit_status,
           written, grabbed, pushed, popped, evaluated, test_main >>

\* ---- values ----
None == << >>
NoFrame == [date_time |-> 0, frame |-> None]
Levels == {0, 25, 100}
Uniform(v) == [i \in 1..Width |-> v]
SourceImages == { Uniform(v) : v \in Levels }
Videos == UNION { [1..n -> SourceImages] : n \in 0..MaxFrames }
\* the reference run: one motion pair, then RefQuiet pairs without motion
RefVideo == [i \in 1..(RefQuiet + 2) |-> IF i = 1 THEN Uniform(0) ELSE Uniform(100)]

Abs(x) == IF x < 0 THEN -x ELSE x
Max2(a, b) == IF a > b THEN a ELSE b
RECURSIVE SumSeq(_)
SumSeq(s) == IF s = << >> THEN 0 ELSE Head(s) + SumSeq(Tail(s))

\* ---- the queue (queue.Queue: FIFO, put blocks when full, get when empty) ----
\* faulty variant: a queue without a maxsize, put never blocks
QueueCanPutUnbounded(q) == TRUE
QueueCanPut(q) == Len(q) < QueueCap
QueuePut(q, x) == Append(q, x)
QueueCanGet(q) == q # << >>
\* faulty variant: a LIFO queue, get returns the newest entry
QueueGetLifo(q) == [item |-> q[Len(q)], rest |-> SubSeq(q, 1, Len(q) - 1)]
QueueGet(q) == [item |-> Head(q), rest |-> Tail(q)]

\* ---- Main._motion_detected ----
AbsDiff(a, b) == [i \in 1..Len(a) |-> Abs(a[i] - b[i])]
\* a 21x21 kernel is wider than the image: every pixel becomes the mean
GaussianBlur(d) == [i \in 1..Len(d) |-> SumSeq(d) \div Len(d)]
\* faulty variant: THRESH_BINARY_INV, the mask is inverted
ThresholdInverted(d) == [i \in 1..Len(d) |-> IF d[i] > Thresh THEN 0 ELSE MaxVal]
Threshold(d) == [i \in 1..Len(d) |-> IF d[i] > Thresh THEN MaxVal ELSE 0]
Dilate1(d) ==
  [i \in 1..Len(d) |->
     Max2(d[i], Max2(IF i > 1 THEN d[i-1] ELSE 0,
                     IF i < Len(d) THEN d[i+1] ELSE 0))]
RECURSIVE Dilate(_, _)
Dilate(d, n) == IF n = 0 THEN d ELSE Dilate(Dilate1(d), n - 1)
\* external contours: one per maximal run of non-zero pixels (its first pixel)
FindContours(d) == { i \in 1..Len(d) : d[i] # 0 /\ (i = 1 \/ d[i-1] = 0) }
Contours(prev, cur) ==
  FindContours(Dilate(Threshold(GaussianBlur(AbsDiff(prev, cur))), DilateIterations))
MotionDetected(prev, cur) == Contours(prev.frame, cur.frame) # {}

\* ---- Main._write_frame ----
Copy(img) == img
PutText(img, text) == [i \in 1..Len(img) |-> IF i = TextPos THEN White ELSE img[i]]
\* faulty variant: the text is put on self.frame["frame"] itself, no copy
WriteFrameInPlace(fr) ==
  [out  |-> [date_time |-> fr.date_time, frame |-> PutText(fr.frame, fr.date_time)],
   kept |-> [date_time |-> fr.date_time, frame |-> PutText(fr.frame, fr.date_time)]]
\* what the writer receives, and what self.frame is afterwards
WriteFrame(fr) ==
  [out  |-> [date_time |-> fr.date_time, frame |-> PutText(Copy(fr.frame), fr.date_time)],
   kept |-> fr]

\* faulty variant: one iteration too many, range(int(duration * fps) + 1)
WindowLenPlusOne(d, f) == IF d * f < 0 THEN 0 ELSE (d * f) \div FpsDen + 1
\* ---- range(int(self.duration * self.fps)) ----
WindowLen(d, f) == IF d * f < 0 THEN 0 ELSE (d * f) \div FpsDen

\* ---- test.py: Main.run, the same loop with the grace period fixed ----
TestRecDelay == 3
TestMainInit ==
  [pc |-> "unstarted", prev_frame |-> NoFrame, frame |-> NoFrame,
   remaining |-> 0, written |-> << >>, gets |-> 0]
\* motion_detected(prev_frame, frame) of test.py: the same pipeline
TestMotionDetected(prev, cur) ==
  FindContours(Dilate(Threshold(GaussianBlur(AbsDiff(prev, cur))), DilateIterations)) # {}
\* write_frame(out, frame) of test.py: what out.write receives
TestWriteFrame(fr) == [date_time |-> fr.date_time, frame |-> PutText(Copy(fr.frame), fr.date_time)]
\* faulty variant: the grace period is one frame longer
TestWindowLenPlusOne(delay, f) == IF delay * f < 0 THEN 0 ELSE (delay * f) \div FpsDen + 1
\* range(int(self.rec_delay * self.fps))
TestWindowLen(delay, f) == IF delay * f < 0 THEN 0 ELSE (delay * f) \div FpsDen
TestNeedsGet(t) == t.pc \in {"prime_prev", "prime_frame", "next_rec", "next_idle"}
\* one step of test.py's Main.run from t.pc; q is the queue, f the fps read
\* from the capture, wopen whether out is opened
TestMainStep(t, q, f, wopen) ==
  CASE t.pc = "prime_prev" ->
         [t EXCEPT !.prev_frame = Head(q), !.gets = @ + 1, !.pc = "prime_frame"]
    [] t.pc = "prime_frame" ->
         [t EXCEPT !.frame = Head(q), !.gets = @ + 1, !.pc = "loop"]
    [] t.pc = "loop" ->
         IF t.prev_frame.frame = None \/ t.frame.frame = None
         THEN [t EXCEPT !.pc = "crashed"]
         ELSE IF TestMotionDetected(t.prev_frame.frame, t.frame.frame)
         THEN [t EXCEPT !.remaining = TestWindowLen(TestRecDelay, f),
                        !.pc = IF TestWindowLen(TestRecDelay, f) = 0 THEN "loop" ELSE "write"]
         ELSE [t EXCEPT !.pc = "next_idle"]
    [] t.pc = "write" ->
         IF t.frame.frame = None
         THEN [t EXCEPT !.pc = "crashed"]
         ELSE [t EXCEPT !.written = IF wopen THEN Append(@, TestWriteFrame(t.frame)) ELSE @,
                        !.pc = "next_rec"]
    [] t.pc = "next_rec" ->
         [t EXCEPT !.prev_frame = t.frame, !.frame = Head(q), !.gets = @ + 1,
                   !.remaining = @ - 1,
                   !.pc = IF t.remaining - 1 = 0 THEN "loop" ELSE "write"]
    [] t.pc = "next_idle" ->
         [t EXCEPT !.prev_frame = t.frame, !.frame = Head(q), !.gets = @ + 1,
                   !.pc = "loop"]
    [] OTHER -> t
\* test.py's controller takes its step whenever main.py's does; a step of
\* another kind (one pops, the other does not) ends the lock-step
TestLockStep(t, popping, q, f, wopen) ==
  IF t.pc \in {"unstarted", "crashed", "diverged"} THEN t
  ELSE IF TestNeedsGet(t) = popping THEN TestMainStep(t, q, f, wopen)
  ELSE [t EXCEPT !.pc = "diverged"]

Init ==
  /\ \/ /\ duration \in 0..MaxDuration
        /\ source \in [video : Videos, fps : 0..MaxFps]
     \/ /\ duration = DefaultDuration
        /\ source = [video |-> RefVideo, fps |-> DefaultFps * FpsDen]
  /\ cap = [opened |-> FALSE, pos |-> 1, releases |-> 0]
  /\ terminate = FALSE
  /\ writer = [opened |-> FALSE, releases |-> 0]
  /\ fps = 0
  /\ frames = << >>
  /\ mainpc = "grabber_init"
  /\ gpc = "unstarted"
  /\ pending = NoFrame
  /\ mpc = "unstarted"
  /\ prev_frame = NoFrame
  /\ frame = NoFrame
  /\ remaining = 0
  /\ printed = << >>
  /\ exit_status = -1
  /\ written = << >>
  /\ grabbed = << >>
  /\ pushed = << >>
  /\ popped = << >>
  /\ evaluated = {}
  /\ test_main = TestMainInit

\* =========================== main() ===================================
\* FrameGrabber.__init__: a --video path that is no file prints and calls
\* exit() (status 0); otherwise cv.VideoCapture is constructed, opened or not
FrameGrabberInit ==
  /\ mainpc = "grabber_init"
  /\ \E video \in {"none", "isfile", "nofile"} :
       IF video = "nofile"
       THEN /\ printed' = Append(printed, "No video found")
            /\ exit_status' = 0
            /\ mainpc' = "exited"
            /\ cap' = cap
       ELSE /\ \E ok \in BOOLEAN : cap' = [cap EXCEPT !.opened = ok]
            /\ mainpc' = "main_init"
            /\ UNCHANGED << printed, exit_status >>
  /\ UNCHANGED << duration, source, terminate, writer, fps, frames, gpc, pending,
                  mpc, prev_frame, frame, remaining, written, grabbed, pushed,
                  popped, evaluated, test_main >>

\* Main.__init__: fps is read from the capture (0 when it is not opened), the
\* writer is constructed, opened or not; prev_frame = None
MainInit ==
  /\ mainpc = "main_init"
  /\ fps' = IF cap.opened THEN source.fps ELSE 0
  /\ \E ok \in BOOLEAN : writer' = [writer EXCEPT !.opened = ok]
  /\ prev_frame' = NoFrame
  /\ mainpc' = "start_grabber"
  /\ UNCHANGED << duration, source, cap, terminate, frames, gpc, pending, mpc,
                  frame, remaining, printed, exit_status, written, grabbed,
                  pushed, popped, evaluated, test_main >>

\* grabber.start(): the thread starts, or start() raises
StartGrabber ==
  /\ mainpc = "start_grabber"
  /\ \/ /\ gpc' = "check"
        /\ mainpc' = "start_m"
     \/ /\ mainpc' = "except_grabber_stop"
        /\ gpc' = gpc
  /\ UNCHANGED << duration, source, cap, terminate, writer, fps, frames, pending,
                  mpc, prev_frame, frame, remaining, printed, exit_status,
                  written, grabbed, pushed, popped, evaluated, test_main >>

\* m.start(): the thread starts, or start() raises
StartM ==
  /\ mainpc = "start_m"
  /\ \/ /\ mpc' = "prime_prev"
        /\ test_main' = [test_main EXCEPT !.pc = "prime_prev"]
        /\ mainpc' = "done"
     \/ /\ mainpc' = "except_grabber_stop"
        /\ UNCHANGED << mpc, test_main >>
  /\ UNCHANGED << duration, source, cap, terminate, writer, fps, frames, gpc,
                  pending, prev_frame, frame, remaining, printed, exit_status,
                  written, grabbed, pushed, popped, evaluated >>

\* FrameGrabber.stop, called from the except branch of main()
FrameGrabberStop ==
  /\ mainpc = "except_grabber_stop"
  /\ cap' = [cap EXCEPT !.opened = FALSE, !.releases = @ + 1]
  /\ terminate' = TRUE
  /\ mainpc' = "except_m_stop"
  /\ UNCHANGED << duration, source, writer, fps, frames, gpc, pending, mpc,
                  prev_frame, frame, remaining, printed, exit_status, written,
                  grabbed, pushed, popped, evaluated, test_main >>

\* Main.stop, called from the except branch of main()
MainStop ==
  /\ mainpc = "except_m_stop"
  /\ writer' = [writer EXCEPT !.opened = FALSE, !.releases = @ + 1]
  /\ mainpc' = "done"
  /\ UNCHANGED << duration, source, cap, terminate, fps, frames, gpc, pending,
                  mpc, prev_frame, frame, remaining, printed, exit_status,
                  written, grabbed, pushed, popped, evaluated, test_main >>

\* ======================= FrameGrabber.run =============================
\* while self.cap.isOpened():
GrabberCheck ==
  /\ gpc = "check"
  /\ gpc' = IF cap.opened THEN "read" ELSE "returned"
  /\ UNCHANGED << duration, source, cap, terminate, writer, fps, frames, mainpc,
                  pending, mpc, prev_frame, frame, remaining, printed,
                  exit_status, written, grabbed, pushed, popped, evaluated, test_main >>

\* what cap.read() returns as the frame: the next image, or None when the
\* source has ended or the capture is released
ReadFrame(c, src) ==
  IF c.opened /\ c.pos <= Len(src.video) THEN src.video[c.pos] ELSE None

\* _, frame = self.cap.read(); the dict is built (the flag is dropped)
GrabberRead ==
  /\ gpc = "read"
  /\ pending' = [date_time |-> Len(grabbed) + 1, frame |-> ReadFrame(cap, source)]
  /\ cap' = IF ReadFrame(cap, source) # None THEN [cap EXCEPT !.pos = @ + 1] ELSE cap
  /\ grabbed' = Append(grabbed, pending')
  /\ gpc' = "put"
  /\ UNCHANGED << duration, source, terminate, writer, fps, frames, mainpc, mpc,
                  prev_frame, frame, remaining, printed, exit_status, written,
                  pushed, popped, evaluated, test_main >>

\* frames.put(...): blocks while the queue is full
GrabberPut ==
  /\ gpc = "put"
  /\ QueueCanPut(frames)
  /\ frames' = QueuePut(frames, pending)
  /\ pushed' = Append(pushed, pending)
  /\ gpc' = "check"
  /\ UNCHANGED << duration, source, cap, terminate, writer, fps, mainpc, pending,
                  mpc, prev_frame, frame, remaining, printed, exit_status,
                  written, grabbed, popped, evaluated, test_main >>

\* =========================== Main.run =================================
\* self.prev_frame = frames.get()
MainRunPrimePrev ==
  /\ mpc = "prime_prev"
  /\ QueueCanGet(frames)
  /\ prev_frame' = QueueGet(frames).item
  /\ frames' = QueueGet(frames).rest
  /\ popped' = Append(popped, prev_frame')
  /\ mpc' = "prime_frame"
  /\ test_main' = TestLockStep(test_main, TRUE, frames, fps, writer.opened)
  /\ UNCHANGED << duration, source, cap, terminate, writer, fps, mainpc, gpc,
                  pending, frame, remaining, printed, exit_status, written,
                  grabbed, pushed, evaluated >>

\* faulty variant: self.frame = self.prev_frame, no second get
MainRunPrimeFrameNoGet ==
  /\ mpc = "prime_frame"
  /\ frame' = prev_frame
  /\ mpc' = "loop"
  /\ UNCHANGED << duration, source, cap, terminate, writer, fps, frames, mainpc,
                  gpc, pending, prev_frame, remaining, printed, exit_status,
                  written, grabbed, pushed, popped, evaluated, test_main >>

\* self.frame = frames.get()
MainRunPrimeFrame ==
  /\ mpc = "prime_frame"
  /\ QueueCanGet(frames)
  /\ frame' = QueueGet(frames).item
  /\ frames' = QueueGet(frames).rest
  /\ popped' = Append(popped, frame')
  /\ mpc' = "loop"
  /\ test_main' = TestLockStep(test_main, TRUE, frames, fps, writer.opened)
  /\ UNCHANGED << duration, source, cap, terminate, writer, fps, mainpc, gpc,
                  pending, prev_frame, remaining, printed, exit_status, written,
                  grabbed, pushed, evaluated >>

\* while self.writer.isOpened(): if self._motion_detected(): for ... else ...
\* cv.absdiff raises on a None frame and the thread dies
MainRunLoop ==
  /\ mpc = "loop"
  /\ IF ~writer.opened
     THEN /\ mpc' = "returned"
          /\ UNCHANGED << remaining, evaluated >>
     ELSE IF prev_frame.frame = None \/ frame.frame = None
     THEN /\ mpc' = "crashed"
          /\ UNCHANGED << remaining, evaluated >>
     ELSE IF MotionDetected(prev_frame, frame)
     THEN /\ remaining' = WindowLen(duration, fps)
          /\ mpc' = IF WindowLen(duration, fps) = 0 THEN "loop" ELSE "write"
          /\ evaluated' = evaluated \cup {[cur |-> frame.date_time, motion |-> TRUE]}
     ELSE /\ mpc' = "next_idle"
          /\ evaluated' = evaluated \cup {[cur |-> frame.date_time, motion |-> FALSE]}
          /\ UNCHANGED remaining
  /\ test_main' = TestLockStep(test_main, FALSE, frames, fps, writer.opened)
  /\ UNCHANGED << duration, source, cap, terminate, writer, fps, frames, mainpc,
                  gpc, pending, prev_frame, frame, printed, exit_status, written,
                  grabbed, pushed, popped >>

\* self._write_frame(): None has no copy(), the thread dies; write() on a
\* writer that is not opened writes nothing
MainRunWrite ==
  /\ mpc = "write"
  /\ IF frame.frame = None
     THEN /\ mpc' = "crashed"
          /\ UNCHANGED << frame, written >>
     ELSE /\ written' = IF writer.opened THEN Append(written, WriteFrame(frame).out)
                        ELSE written
          /\ frame' = WriteFrame(frame).kept
          /\ mpc' = "next_rec"
  /\ test_main' = TestLockStep(test_main, FALSE, frames, fps, writer.opened)
  /\ UNCHANGED << duration, source, cap, terminate, writer, fps, frames, mainpc,
                  gpc, pending, prev_frame, remaining, printed, exit_status,
                  grabbed, pushed, popped, evaluated >>

\* faulty variant: motion is evaluated on every frame of the window and a new
\* verdict restarts the countdown
MainRunNextRecordingRestart ==
  /\ mpc = "next_rec"
  /\ QueueCanGet(frames)
  /\ prev_frame' = frame
  /\ frame' = QueueGet(frames).item
  /\ frames' = QueueGet(frames).rest
  /\ popped' = Append(popped, frame')
  /\ IF frame'.frame # None /\ MotionDetected(prev_frame', frame')
     THEN /\ remaining' = WindowLen(duration, fps)
          /\ evaluated' = evaluated \cup {[cur |-> frame'.date_time, motion |-> TRUE]}
     ELSE /\ remaining' = remaining - 1
          /\ evaluated' = evaluated
  /\ mpc' = IF remaining' = 0 THEN "loop" ELSE "write"
  /\ UNCHANGED << duration, source, cap, terminate, writer, fps, mainpc, gpc,
                  pending, printed, exit_status, written, grabbed, pushed, test_main >>

\* faulty variant: the for loop counts down without self._next_frame()
MainRunNextRecordingNoGet ==
  /\ mpc = "next_rec"
  /\ remaining' = remaining - 1
  /\ mpc' = IF remaining' = 0 THEN "loop" ELSE "write"
  /\ UNCHANGED << duration, source, cap, terminate, writer, fps, frames, mainpc,
                  gpc, pending, prev_frame, frame, printed, exit_status,
                  written, grabbed, pushed, popped, evaluated, test_main >>

\* self._next_frame() inside the for loop; the loop ends after the last one
MainRunNextRecording ==
  /\ mpc = "next_rec"
  /\ QueueCanGet(frames)
  /\ prev_frame' = frame
  /\ frame' = QueueGet(frames).item
  /\ frames' = QueueGet(frames).rest
  /\ popped' = Append(popped, frame')
  /\ remaining' = remaining - 1
  /\ mpc' = IF remaining' = 0 THEN "loop" ELSE "write"
  /\ test_main' = TestLockStep(test_main, TRUE, frames, fps, writer.opened)
  /\ UNCHANGED << duration, source, cap, terminate, writer, fps, mainpc, gpc,
                  pending, printed, exit_status, written, grabbed, pushed,
                  evaluated >>

\* faulty variant: the else branch writes the frame before it moves on
MainRunNextIdleWrites ==
  /\ mpc = "next_idle"
  /\ QueueCanGet(frames)
  /\ written' = Append(written, WriteFrame(frame).out)
  /\ prev_frame' = frame
  /\ frame' = QueueGet(frames).item
  /\ frames' = QueueGet(frames).rest
  /\ popped' = Append(popped, frame')
  /\ mpc' = "loop"
  /\ UNCHANGED << duration, source, cap, terminate, writer, fps, mainpc, gpc,
                  pending, remaining, printed, exit_status, grabbed, pushed,
                  evaluated, test_main >>

\* self._next_frame() in the else branch
MainRunNextIdle ==
  /\ mpc = "next_idle"
  /\ QueueCanGet(frames)
  /\ prev_frame' = frame
  /\ frame' = QueueGet(frames).item
  /\ frames' = QueueGet(frames).rest
  /\ popped' = Append(popped, frame')
  /\ mpc' = "loop"
  /\ test_main' = TestLockStep(test_main, TRUE, frames, fps, writer.opened)
  /\ UNCHANGED << duration, source, cap, terminate, writer, fps, mainpc, gpc,
                  pending, remaining, printed, exit_status, written, grabbed,
                  pushed, evaluated >>

Next ==
  \/ FrameGrabberInit
  \/ MainInit
  \/ StartGrabber
  \/ StartM
  \/ FrameGrabberStop
  \/ MainStop
  \/ GrabberCheck
  \/ GrabberRead
  \/ GrabberPut
  \/ MainRunPrimePrev
  \/ MainRunPrimeFrame
  \/ MainRunLoop
  \/ MainRunWrite
  \/ MainRunNextRecording
  \/ MainRunNextIdle

Spec == Init /\ [][Next]_vars

\* ---- stop requested from outside while the threads run ----
\* grabber.stop() called by another thread, once, after main() has started
\* both threads
GrabberStopRequest ==
  /\ mainpc = "done"
  /\ cap.releases = 0
  /\ cap' = [cap EXCEPT !.opened = FALSE, !.releases = @ + 1]
  /\ terminate' = TRUE
  /\ UNCHANGED << duration, source, writer, fps, frames, mainpc, gpc, pending,
                  mpc, prev_frame, frame, remaining, printed, exit_status,
                  written, grabbed, pushed, popped, evaluated, test_main >>

\* m.stop() called by another thread, once, after main() has started both
\* threads
MainStopRequest ==
  /\ mainpc = "done"
  /\ writer.releases = 0
  /\ writer' = [writer EXCEPT !.opened = FALSE, !.releases = @ + 1]
  /\ UNCHANGED << duration, source, cap, terminate, fps, frames, mainpc, gpc,
                  pending, mpc, prev_frame, frame, remaining, printed,
                  exit_status, written, grabbed, pushed, popped, evaluated, test_main >>

NextWithStop ==
  \/ Next
  \/ GrabberStopRequest
  \/ MainStopRequest

StopSpec == Init /\ [][NextWithStop]_vars

\* ---- the detector on its own: Main.run at the head of its loop, holding
\* any two images a camera can deliver ----
PixelValues == {0, 25, 100, 255}
Images == [1..Width -> PixelValues]
DetectorInit ==
  /\ \E a \in Images, b \in Images :
       /\ prev_frame = [date_time |-> 1, frame |-> a]
       /\ frame = [date_time |-> 2, frame |-> b]
       /\ source = [video |-> << a, b >>, fps |-> FpsDen]
  /\ grabbed = << prev_frame, frame >>
  /\ pushed = grabbed
  /\ popped = grabbed
  /\ duration = 1
  /\ fps = FpsDen
  /\ cap = [opened |-> TRUE, pos |-> 3, releases |-> 0]
  /\ terminate = FALSE
  /\ writer = [opened |-> TRUE, releases |-> 0]
  /\ frames = << >>
  /\ mainpc = "done"
  /\ gpc = "check"
  /\ pending = frame
  /\ mpc = "loop"
  /\ remaining = 0
  /\ printed = << >>
  /\ exit_status = -1
  /\ written = << >>
  /\ evaluated = {}
  /\ test_main = [pc |-> "loop", prev_frame |-> prev_frame, frame |-> frame,
                  remaining |-> 0, written |-> << >>, gets |-> 2]

DetectorSpec == DetectorInit /\ [][MainRunLoop]_vars


\* ====================== properties ====================================
\* duration x fps in whole frames
ClaimedWindow ==
  CHOOSE n \in 0..(duration * fps) :
    n * FpsDen <= duration * fps /\ duration * fps < (n + 1) * FpsDen
\* the controller's state of the recording state machine
Recording == mpc \in {"write", "next_rec"}
Idle == mpc \in {"loop", "next_idle"}
\* what the encoder receives for a queue entry: the stamped copy
Stamped(e) == [date_time |-> e.date_time, frame |-> PutText(e.frame, e.date_time)]
WrittenPositions == { written[k].date_time : k \in 1..Len(written) }

\* C1: when motion was reported on exactly one evaluated pair (current frame
\* j), the encoder has received the frames j, j+1, ... in order, never more
\* than duration x fps of them; once the controller has consumed frame
\* j + duration x fps it has written exactly duration x fps frames, it is not
\* recording, and every later pair it has passed was evaluated, starting with
\* the pair whose current frame is j + duration x fps.  In the reference run
\* (fps 10, duration 3, one motion pair then RefQuiet quiet pairs) that is
\* exactly 30 frames.
C1_OneWindow ==
  /\ \A e \in evaluated :
       (e.motion /\ \A e2 \in evaluated : e2.motion => e2 = e) =>
         LET j == e.cur
             n == ClaimedWindow
         IN /\ Len(written) <= n
            /\ \A k \in 1..Len(written) : written[k] = Stamped(pushed[j + k - 1])
            /\ Len(popped) >= j + n =>
                 /\ Len(written) = n
                 /\ ~Recording
                 /\ \A p \in (j + n)..(Len(popped) - 1) :
                      [cur |-> p, motion |-> FALSE] \in evaluated
            /\ \A e2 \in evaluated : e2.cur > j => e2.cur >= j + n
  /\ (source.video = RefVideo /\ duration = DefaultDuration
        /\ Len(popped) > DefaultDuration * DefaultFps + 1) =>
       /\ Len(written) = DefaultDuration * DefaultFps
       /\ \A k \in 1..Len(written) : written[k].date_time = k + 1

\* C1 witness: the reference run has written its 30 frames, is idle again and
\* has evaluated the pair of frames 31 and 32
C1_Witness ==
  /\ source.video = RefVideo
  /\ duration = DefaultDuration
  /\ fps = DefaultFps * FpsDen
  /\ Len(written) = DefaultDuration * DefaultFps
  /\ Idle
  /\ [cur |-> DefaultDuration * DefaultFps + 2, motion |-> FALSE] \in evaluated

\* C2: the dicts returned by frames.get are, in order, the first dicts that
\* frames.put accepted: no reordering, no duplication, no loss.
C2_FifoOrder ==
  /\ Len(popped) <= Len(pushed)
  /\ \A i \in 1..Len(popped) : popped[i] = pushed[i]
  /\ \A i \in 1..Len(pushed) : pushed[i] = grabbed[i]

\* C2 witness: the controller has popped frames while the grabber, racing
\* ahead, has more than one entry waiting in the queue
C2_Witness ==
  /\ Len(popped) >= 2
  /\ Len(frames) >= 2
  /\ frames[1] # frames[2]

\* C3: the queue never holds more than QueueCap entries, and every dict the
\* grabber built is already consumed, or still queued, or pending in the put.
C3_BoundedNoDrop ==
  /\ Len(frames) <= QueueCap
  /\ grabbed = popped \o frames \o (IF gpc = "put" THEN << pending >> ELSE << >>)

\* C3 witness: the queue is full and the grabber is blocked in put with a
\* frame in hand, after the controller has already consumed some
C3_Witness ==
  /\ Len(frames) = QueueCap
  /\ gpc = "put"
  /\ pending.frame # None
  /\ Len(popped) >= 1

\* no thread can take another step: main() is over, the grabber has returned
\* or is blocked in put on a full queue, the controller has ended or is
\* blocked in get on an empty queue
Halted ==
  /\ mainpc \in {"done", "exited"}
  /\ \/ gpc \in {"unstarted", "returned"}
     \/ gpc = "put" /\ ~QueueCanPut(frames)
  /\ \/ mpc \in {"unstarted", "returned", "crashed"}
     \/ mpc \in {"prime_prev", "prime_frame", "next_idle", "next_rec"} /\ ~QueueCanGet(frames)
\* a read of the opened source has come back without a frame
EndOfSource == \E i \in 1..Len(grabbed) : grabbed[i].frame = None

\* C4 (as claimed): once the source has reported its end to a controller that
\* was running its state machine, and nothing can move any more, the capture
\* was released exactly once and the encoder was released exactly once;
\* neither is ever released twice.
C4_ReleasedOnceAtEnd ==
  /\ cap.releases <= 1
  /\ writer.releases <= 1
  /\ (EndOfSource /\ evaluated # {} /\ Halted) =>
       (cap.releases = 1 /\ writer.releases = 1)

\* C5 (as claimed): the controller is never left waiting for good on an empty
\* queue whose producer has finished, and it does not exit with the encoder
\* unreleased.
C5_ConsumerUnblocked ==
  /\ (gpc = "returned" /\ ~QueueCanGet(frames)
        /\ mpc \in {"prime_prev", "prime_frame", "next_idle", "next_rec"}) =>
       ~Halted
  /\ mpc \in {"returned", "crashed"} => writer.releases >= 1

\* Halted states are exactly the states without a successor
HaltedIsDeadlock == Halted => ~ENABLED Next

\* C6 (as claimed): a failed read enqueues nothing, ends the capture loop and
\* releases the capture.
C6_FailedReadEndsLoop ==
  /\ \A i \in 1..Len(pushed) : pushed[i].frame # None
  /\ \A i \in 1..Len(grabbed) :
       grabbed[i].frame = None => (i = Len(grabbed) /\ gpc # "read")

\* C7 (as claimed): when the source could not be opened no thread is ever
\* started, and the process exits with a diagnostic and a non-zero status.
C7_NoStartOnBadSource ==
  (mainpc # "grabber_init" /\ ~cap.opened /\ cap.releases = 0) =>
    /\ gpc = "unstarted"
    /\ mpc = "unstarted"
    /\ mainpc = "exited" => (exit_status > 0 /\ printed # << >>)

\* C8: the detector runs only once two frames were popped, the controller is
\* never recording before that, and the first frame popped is never written.
C8_Priming ==
  /\ evaluated # {} => Len(popped) >= 2
  /\ \A e \in evaluated : e.cur >= 2 /\ e.cur <= Len(popped)
  /\ Recording => Len(popped) >= 2
  /\ \A k \in 1..Len(written) : written[k].date_time # popped[1].date_time

\* C8 witness: motion on the very first pair, and a frame has been written
C8_Witness ==
  /\ [cur |-> 2, motion |-> TRUE] \in evaluated
  /\ Len(written) >= 1
  /\ written[1].date_time = 2

\* C9: self.frame and self.prev_frame are, at every moment and after any
\* number of writes, the last two dicts exactly as they were popped (and so
\* as the grabber built them); the stamp is only on what the encoder got.
C9_CloneOnWrite ==
  /\ Len(popped) >= 1 =>
       IF Len(popped) = 1 THEN prev_frame = popped[1]
       ELSE /\ frame = popped[Len(popped)]
            /\ prev_frame = popped[Len(popped) - 1]
  /\ \A i \in 1..Len(popped) : popped[i] = grabbed[i]
  /\ \A k \in 1..Len(written) :
       /\ written[k].frame = PutText(grabbed[written[k].date_time].frame, written[k].date_time)
       /\ written[k].frame # grabbed[written[k].date_time].frame

\* C9 witness: two frames were written, the second just now, and it is the
\* frame that will be the previous frame of the next comparison
C9_Witness ==
  /\ mpc = "next_rec"
  /\ Len(written) >= 2
  /\ written[Len(written)].date_time = frame.date_time
  /\ written[Len(written)].frame # frame.frame
  /\ frame = grabbed[frame.date_time]

\* C10: no pair whose current frame lies inside a recording window is ever
\* evaluated, so the verdicts there cannot change what is written; the frames
\* written are those of the windows of the pairs evaluated with motion, each
\* window duration x fps frames long and written in full once the controller
\* has passed it.
C10_NoReevaluation ==
  /\ \A e \in evaluated : e.motion =>
       /\ \A e2 \in evaluated : ~(e.cur < e2.cur /\ e2.cur < e.cur + ClaimedWindow)
       /\ \A p \in e.cur..(e.cur + ClaimedWindow - 1) :
            p < Len(popped) => p \in WrittenPositions
  /\ \A k \in 1..Len(written) :
       \E e \in evaluated :
         /\ e.motion
         /\ e.cur <= written[k].date_time
         /\ written[k].date_time < e.cur + ClaimedWindow
  /\ Recording => /\ remaining >= 1
                  /\ remaining <= ClaimedWindow
                  /\ \E e \in evaluated :
                       e.motion /\ frame.date_time = e.cur + ClaimedWindow - remaining

\* C10 witness: a window of two frames was written in full although the pair
\* inside it shows motion too, and that pair was never evaluated
C10_Witness ==
  /\ ClaimedWindow = 2
  /\ [cur |-> 2, motion |-> TRUE] \in evaluated
  /\ Len(popped) >= 4
  /\ MotionDetected(popped[2], popped[3])
  /\ WrittenPositions = {2, 3}
  /\ \A e \in evaluated : e.cur # 3

\* C11 (as claimed): after FrameGrabber.stop the capture loop ends whatever
\* the queue holds, the capture is released, and no dict read from the
\* released capture is enqueued (while the source still has frames to give, a
\* dict without a frame can only come from such a read).
C11_StopEndsCapture ==
  /\ terminate => (~cap.opened /\ cap.releases >= 1)
  /\ (terminate /\ Halted) => gpc \in {"unstarted", "returned"}
  /\ (cap.pos <= Len(source.video)) =>
       \A i \in 1..Len(pushed) : pushed[i].frame # None

\* C12 (as claimed): when the writer could not be opened nothing is ever
\* written, and once the controller has returned the grabber is not left
\* capturing and filling the queue.
C12_EncoderUnavailableFatal ==
  (mainpc \notin {"grabber_init", "main_init", "exited"}
     /\ ~writer.opened /\ writer.releases = 0) =>
    /\ written = << >>
    /\ mpc = "returned" => gpc \in {"unstarted", "returned"}

\* C13: the verdict recorded for a pair is motion exactly when the dilated,
\* thresholded, blurred difference of the two images has a non-zero pixel
\* (so a connected region); for two identical images it is never motion.
C13_VerdictIffRegions ==
  \A e \in evaluated :
    LET a == grabbed[e.cur - 1].frame
        b == grabbed[e.cur].frame
        mask == Dilate(Threshold(GaussianBlur(AbsDiff(a, b))), DilateIterations)
    IN /\ e.motion <=> (\E i \in 1..Width : mask[i] # 0)
       /\ e.motion <=> (Contours(a, b) # {})
       /\ a = b => ~e.motion

\* C13 witness: two identical, non-black images were compared: no motion
C13_Witness ==
  /\ evaluated = {[cur |-> 2, motion |-> FALSE]}
  /\ prev_frame.frame = frame.frame
  /\ \E i \in 1..Width : frame.frame[i] # 0
  /\ mpc = "next_idle"

\* C14: every frame written has a pair evaluated with motion at most
\* duration x fps frames before it (0 <= k - j < duration x fps); the current
\* frame of a pair evaluated without motion is never written, and after it
\* the controller holds the very next frame: that pair is the next one
\* evaluated.
C14_WriteOnlyAfterMotion ==
  /\ \A k \in 1..Len(written) :
       \E e \in evaluated :
         /\ e.motion
         /\ 0 <= written[k].date_time - e.cur
         /\ (written[k].date_time - e.cur) * FpsDen < duration * fps
  /\ \A e \in evaluated : ~e.motion =>
       /\ e.cur \notin WrittenPositions
       /\ Len(popped) <= e.cur + 1
            \/ \E e2 \in evaluated : e2.cur = e.cur + 1
       /\ Len(popped) = e.cur + 1 =>
            /\ frame.date_time = e.cur + 1
            /\ prev_frame.date_time = e.cur
       /\ Len(popped) = e.cur => mpc = "next_idle"

\* C14 witness: the pair of frames 1, 2 was evaluated without motion, nothing
\* was written for it, the pair 2, 3 showed motion and frame 3 was written
C14_Witness ==
  /\ [cur |-> 2, motion |-> FALSE] \in evaluated
  /\ [cur |-> 3, motion |-> TRUE] \in evaluated
  /\ 3 \in WrittenPositions
  /\ 2 \notin WrittenPositions

\* C15 (as claimed): every pair of consumed frames the controller has moved
\* past was evaluated or has its current frame written as part of a window,
\* and the current frame of every pair evaluated with motion is written (it
\* is written at once: the controller is about to write it, or has).
C15_NoMotionMissed ==
  /\ \A n \in 2..(Len(popped) - 1) :
       (\E e \in evaluated : e.cur = n) \/ n \in WrittenPositions
  /\ \A e \in evaluated : e.motion =>
       \/ e.cur \in WrittenPositions
       \/ mpc = "write" /\ frame.date_time = e.cur

\* the same statement holds of every run whose window is at least one frame
C15_HoldsForNonEmptyWindow == ClaimedWindow >= 1 => C15_NoMotionMissed

\* C16: the dicts popped are the dicts built, each once and in order; the
\* frames written are stamped copies of built frames at strictly increasing
\* capture positions, so no frame is written twice.
C16_WrittenIsSubsequence ==
  /\ \A i \in 1..Len(popped) : popped[i] = grabbed[i] /\ popped[i].date_time = i
  /\ \A k \in 1..Len(written) :
       /\ written[k].date_time \in 1..Len(popped)
       /\ written[k] = Stamped(grabbed[written[k].date_time])
  /\ \A k \in 1..(Len(written) - 1) : written[k].date_time < written[k + 1].date_time

\* C16 witness: two windows with an unwritten frame between them
C16_Witness ==
  /\ Len(written) = 2
  /\ written[1].date_time = 2
  /\ written[2].date_time = 4

\* C17 (as claimed): at the head of its loop the controller always holds a
\* pair it has not evaluated before: every pass has popped a frame.
C17_EveryPassPops ==
  mpc = "loop" => \A e \in evaluated : e.cur < frame.date_time

\* C18 (as claimed): once Main.stop has released the writer the controller's
\* loop exits: when both stops were requested and no thread can move any
\* more, a started controller has left its loop.
C18_StopEndsController ==
  (writer.releases >= 1 /\ cap.releases >= 1 /\ Halted /\ mpc # "unstarted") =>
    mpc \in {"returned", "crashed"}

\* C19: run with duration = 3 and an open writer, main.py's controller and
\* test.py's controller, fed the same queue, are always at the same place of
\* the same loop, hold the same two frames and the same countdown, have
\* popped the same number of frames and have written the same frames.
C19_SameStateMachine ==
  (duration = TestRecDelay /\ writer.opened /\ mpc # "unstarted") =>
    /\ test_main.pc = mpc
    /\ test_main.prev_frame = prev_frame
    /\ test_main.frame = frame
    /\ test_main.gets = Len(popped)
    /\ Recording => test_main.remaining = remaining
    /\ Len(test_main.written) = Len(written)
    /\ \A k \in 1..Len(written) :
         test_main.written[k].date_time = written[k].date_time

\* C19 witness: with duration 3 both controllers have written a window, are
\* back in the else branch and about to pop
C19_Witness ==
  /\ duration = TestRecDelay
  /\ source.video # RefVideo
  /\ mpc = "next_idle"
  /\ test_main.pc = "next_idle"
  /\ Len(written) >= 1
  /\ Len(test_main.written) = Len(written)
  /\ \E e \in evaluated : ~e.motion /\ e.cur > written[Len(written)].date_time

====
